---- MODULE Spec2Model ----
(***************************************************************************)
(* Model of the Windows agent collector: the collector Collection          *)
(* (pkg/collector: Enable, Build, Close, Collectors, Collect), the run     *)
(* path of cmd/agent (run, runPushGateway, pushMetrics) and the helpers    *)
(* they use.                                                               *)
(***************************************************************************)
EXTENDS Naturals, Sequences, FiniteSets, TLC

VARIABLES
    \* ---- Collection (pkg/collector) ----
    collectors,      \* keys of Collection.collectors (the enabled map)
    enableCalled,    \* an Enable call has returned
    enableArg,       \* argument of the last Enable call
    enablePrev,      \* Collectors() as it was just before the last Enable call
    enableErr,       \* result of the last Enable call
    listings,        \* the lists Collectors() returned since the last Enable
    listCalls,       \* number of Collectors() calls since the last Enable
    ctxDone,         \* the context handed to run/Build is cancelled
    miSession,       \* Collection.miSession: 0 is nil, n > 0 the n-th session
    sessionsOpened,  \* number of MI sessions created so far
    released,        \* per session: number of Session.Close calls made on it
    buildPc,         \* position inside Collection.Build
    buildTodo,       \* collectors the range loop of Build has not visited yet
    built,           \* collectors whose Build returned nil
    buildFailed,     \* collectors whose Build returned an error
    buildErr,        \* result of the last Build call
    closed,          \* per collector: number of Close calls made on it
    closeCalls,      \* number of Collection.Close calls
    closeLog,        \* what the last Collection.Close call did, in order
    lastOp,          \* last Collection method called (Build or Close)
    \* ---- one collection cycle (Collection.Collect) ----
    cyclePc,         \* "idle", "running" (sources at work), "done"
    srcState,        \* per collector: "off", "running", "ok", "err", "timeout"
    srcBuf,          \* per collector: samples it has written in this cycle
    sinkSamples,     \* per collector: its samples that reached the sink
    sinkMeta,        \* per collector and meta-metric: times emitted to the sink
    metaVal,         \* per collector: values of collector_success/_timeout
    scrapeDuration,  \* times collector_scrape_duration_seconds was emitted
    \* ---- cmd/agent ----
    pc,              \* position of the caller: "api" (methods called directly)
                     \* or the position inside run
    exitCode,        \* value run returned (meaningful once pc = "exit")
    gatewayURL,      \* --push.gateway-url ("" when not given)
    agentID,         \* --agent-id ("" when not given)
    enabledFlag,     \* --collectors.enabled, as its comma-separated pieces
    enabledList,     \* enabledCollectorList in run
    registered,      \* the AgentCollectorWrapper is registered in the registry
    stopSignalled,   \* a value is waiting on stopCh (service stop request)
    loopPc,          \* runPushGateway: "notstarted", "pushing", "idle", "returned"
    loopErr,         \* value runPushGateway returned
    tickPending,     \* a tick is waiting in ticker.C (capacity 1)
    ticksConsumed,   \* ticks the select of runPushGateway has received
    ticksFired,      \* times the ticker has fired since runPushGateway started
    ticksDropped,    \* fired ticks dropped because one was already waiting
    pushLog,         \* the push attempts so far: "initial" or "tick", in order
    pushGrouping,    \* per push attempt: the agent_id grouping value it carries
    pushResults,     \* the results of the pushes that returned: "ok" or "err"
    pushOutcome,     \* how the push in flight ends: "ok", "err", "hang"
    collectCalls,    \* Collect calls made through the registry (one per push)
    \* ---- pushMetrics called on its own ----
    config,          \* the PushConfig handed to pushMetrics
    pushCalls,       \* number of pushMetrics calls that have returned
    requests,        \* the HTTP requests those calls have issued, in order
    pushErr,         \* value the last pushMetrics call returned
    \* ---- GetInterfaceType called on its own ----
    ifType,          \* the OS-reported interface type code
    friendlyName,    \* the adapter's friendly name, as its characters
    ifClass,         \* the class returned; "pending" before the call returns
    \* ---- AgentCollectorWrapper.Collect ----
    facadePc,        \* "idle", "relaying" (inside the range loop), "returned"
    orchPc,          \* the goroutine: "off", "collecting", "returned", "closed"
    toWrite,         \* samples the sources of this cycle are about to write
    orchWritten,     \* samples Collection.Collect has written to originalCh
    originalCh,      \* the samples waiting in originalCh, oldest first
    metric,          \* the sample the range loop holds (0: none)
    sinkOut,         \* the samples the consumer of ch has received, in order
    sinkReceiving    \* the consumer of ch is receiving

enableVars == <<enableCalled, enableArg, enablePrev, enableErr, listings,
                listCalls>>
lifeVars == <<ctxDone, miSession, sessionsOpened, released, buildPc, buildTodo,
              built, buildFailed, buildErr, closed, closeCalls, closeLog,
              lastOp>>
cycleVars == <<cyclePc, srcState, srcBuf, sinkSamples, sinkMeta, metaVal,
               scrapeDuration>>
runVars == <<exitCode, gatewayURL, agentID, enabledFlag, enabledList, registered>>
loopVars == <<stopSignalled, loopPc, loopErr, tickPending, ticksConsumed,
              ticksFired, ticksDropped, pushLog,
              pushGrouping, pushResults, pushOutcome, collectCalls>>
pushVars == <<config, pushCalls, requests, pushErr>>
classVars == <<ifType, friendlyName, ifClass>>
facadeVars == <<facadePc, orchPc, toWrite, orchWritten, originalCh, metric,
                sinkOut, sinkReceiving>>
vars == <<collectors, enableVars, lifeVars, cycleVars, pc, runVars, loopVars,
          pushVars, classVars, facadeVars>>

\* ------------------------------------------------------------------ bounds
MaxNames == 2
MaxSessions == 2
MaxCloses == 2
MaxSamples == 2
MaxTokens == 2
MaxPushes == 3
MaxPushCalls == 2
MaxListCalls == 2
MaxDropped == 1
\* originalCh is made with room for 1000 samples; the model keeps the
\* structure with a small buffer.
OriginalChCap == 2

\* ---------------------------------------------------------------- registry
\* The four collectors NewWithFlags puts into the collection.
Registry == {"cpu", "memory", "net", "pagefile"}

\* Names a caller may pass: the registered ones and one that is not registered.
Names == Registry \cup {"bogus"}

\* Byte-wise string order of the names (slices.Sort on []string).
NameOrder == <<"bogus", "cpu", "memory", "net", "pagefile">>

NewWithFlags == Registry

RECURSIVE SeqsUpTo(_, _)
SeqsUpTo(S, n) ==
    IF n = 0 THEN {<<>>}
    ELSE LET shorter == SeqsUpTo(S, n - 1)
         IN  shorter \cup {Append(s, x) : s \in shorter, x \in S}

Range(s) == {s[i] : i \in 1..Len(s)}

\* ------------------------------------------------------------- Collectors()
\* Collection.Collectors: the keys of the map, sorted.
Collectors(cs) == SelectSeq(NameOrder, LAMBDA n : n \in cs)

\* Position of a name in the byte-wise order.
Rank(name) == CHOOSE i \in 1..Len(NameOrder) : NameOrder[i] = name

\* The orders in which ranging over the map can yield its keys.
KeyOrders(cs) ==
    {s \in SeqsUpTo(cs, Cardinality(cs)) : Len(s) = Cardinality(cs) /\ Range(s) = cs}

RECURSIVE InsertSorted(_, _)
InsertSorted(x, sorted) ==
    IF sorted = <<>> THEN <<x>>
    ELSE IF Rank(x) <= Rank(Head(sorted)) THEN <<x>> \o sorted
    ELSE <<Head(sorted)>> \o InsertSorted(x, Tail(sorted))

\* A slip: the keys are returned in the order the map yielded them.
SortUnsorted(xs) == xs

\* slices.Sort(names)
RECURSIVE Sort(_)
Sort(xs) == IF xs = <<>> THEN <<>> ELSE InsertSorted(Head(xs), Sort(Tail(xs)))

\* One Collectors() call: the keys are appended in map order, then sorted.
CollectorsCall ==
    /\ pc = "api"
    /\ listCalls < MaxListCalls
    /\ \E keys \in KeyOrders(collectors) : listings' = listings \cup {Sort(keys)}
    /\ listCalls' = listCalls + 1
    /\ UNCHANGED <<collectors, enableCalled, enableArg, enablePrev, enableErr,
                   lifeVars, pc, cycleVars, runVars, loopVars, pushVars, classVars, facadeVars>>

\* ------------------------------------------------------------------ Enable
\* A slip in Enable: the map built so far is stored before the error return.
RECURSIVE EnableLoopPartial(_, _, _)
EnableLoopPartial(cur, names, enabled) ==
    IF names = <<>> THEN [err |-> "nil", collectors |-> enabled]
    ELSE IF Head(names) \in cur
         THEN EnableLoopPartial(cur, Tail(names), enabled \cup {Head(names)})
         ELSE [err |-> "not available", collectors |-> enabled]

\* A slip in Enable: names are looked up in the registry of all builders.
RECURSIVE EnableLoopFromRegistry(_, _, _)
EnableLoopFromRegistry(cur, names, enabled) ==
    IF names = <<>> THEN [err |-> "nil", collectors |-> enabled]
    ELSE IF Head(names) \in Registry
         THEN EnableLoopFromRegistry(cur, Tail(names), enabled \cup {Head(names)})
         ELSE [err |-> "not available", collectors |-> cur]

\* The loop of Collection.Enable over the requested names: `enabled` is the
\* local map; the receiver's map is replaced only after the whole loop.
RECURSIVE EnableLoop(_, _, _)
EnableLoop(cur, names, enabled) ==
    IF names = <<>> THEN [err |-> "nil", collectors |-> enabled]
    ELSE IF Head(names) \in cur
         THEN EnableLoop(cur, Tail(names), enabled \cup {Head(names)})
         ELSE [err |-> "not available", collectors |-> cur]

Enable(names) ==
    LET r == EnableLoop(collectors, names, {})
    IN  /\ collectors' = r.collectors
        /\ enableErr' = r.err
        /\ enableCalled' = TRUE
        /\ enableArg' = names
        /\ enablePrev' = Collectors(collectors)
        /\ listings' = {}
        /\ listCalls' = 0

EnableCall ==
    /\ pc = "api"
    /\ \E names \in SeqsUpTo(Names, MaxNames) : Enable(names)
    /\ UNCHANGED <<lifeVars, pc, cycleVars, runVars, loopVars, pushVars, classVars, facadeVars>>

\* ------------------------------------------------------------------- Build
\* The caller's context is cancelled (signal.NotifyContext in main).
Cancel ==
    /\ ~ctxDone
    /\ ctxDone' = TRUE
    /\ UNCHANGED <<collectors, enableVars, miSession, sessionsOpened, released,
                   buildPc, buildTodo, built, buildFailed, buildErr, closed,
                   closeCalls, lastOp, pc, cycleVars, runVars, loopVars, pushVars, classVars, closeLog, facadeVars>>

\* Who may call Build: a direct caller while no Build is running, or run at
\* its Build step.
BuildCallable ==
    \/ pc = "api" /\ buildPc # "building"
    \/ pc = "build" /\ buildPc = "idle"

\* Entry of Collection.Build: mi.ApplicationInitialize and app.NewSession;
\* on success the session is stored in c.miSession and the loop starts.
BuildAcquire(miOk) ==
    /\ BuildCallable
    /\ sessionsOpened < MaxSessions
    /\ IF miOk
       THEN /\ sessionsOpened' = sessionsOpened + 1
            /\ miSession' = sessionsOpened + 1
            /\ buildTodo' = collectors
            /\ buildPc' = "building"
            /\ UNCHANGED buildErr
       ELSE /\ buildErr' = "mi"
            /\ buildPc' = "returned"
            /\ UNCHANGED <<sessionsOpened, miSession, buildTodo>>
    /\ lastOp' = "Build"
    /\ UNCHANGED <<collectors, enableVars, ctxDone, released, built, buildFailed, closed,
                   closeCalls, pc, cycleVars, runVars, loopVars, pushVars, classVars, closeLog, facadeVars>>

\* One iteration of the range loop of Build (map order: any remaining name):
\* the ctx.Done check, then the collector's Build.
BuildNext(name, ok) ==
    /\ buildPc = "building"
    /\ name \in buildTodo
    /\ IF ctxDone
       THEN /\ buildErr' = "ctx"
            /\ buildPc' = "returned"
            /\ UNCHANGED <<buildTodo, built, buildFailed>>
       ELSE IF ok
       THEN /\ built' = built \cup {name}
            /\ buildTodo' = buildTodo \ {name}
            /\ UNCHANGED <<buildErr, buildPc, buildFailed>>
       ELSE /\ buildErr' = "build"
            /\ buildPc' = "returned"
            /\ buildFailed' = buildFailed \cup {name}
            /\ UNCHANGED <<buildTodo, built>>
    /\ UNCHANGED <<collectors, enableVars, ctxDone, miSession, sessionsOpened,
                   released, closed, closeCalls, lastOp, pc, cycleVars, runVars, loopVars, pushVars, classVars, closeLog, facadeVars>>

\* The loop is over: Build returns nil.
BuildReturn ==
    /\ buildPc = "building"
    /\ buildTodo = {}
    /\ buildErr' = "nil"
    /\ buildPc' = "returned"
    /\ UNCHANGED <<collectors, enableVars, ctxDone, miSession, sessionsOpened,
                   released, buildTodo, built, buildFailed, lastOp, closed, closeCalls, pc, cycleVars, runVars, loopVars, pushVars, classVars, closeLog, facadeVars>>

\* ------------------------------------------------------------------- Close
\* A slip: the loop over the collectors stops at the first Close that fails.
RECURSIVE CloseEventsStopOnError(_, _, _)
CloseEventsStopOnError(order, failing, session) ==
    IF order = <<>>
    THEN IF session # 0 THEN << <<"release", session>> >> ELSE <<>>
    ELSE IF Head(order) \in failing
    THEN << <<"close", Head(order)>> >>
    ELSE << <<"close", Head(order)>> >>
         \o CloseEventsStopOnError(Tail(order), failing, session)

\* What one Collection.Close call does: collector.Close() on every collector
\* in the order the map yields them, whatever each returns (the result is
\* not looked at), then Close on the session if c.miSession is not nil.
RECURSIVE CloseEvents(_, _, _)
CloseEvents(order, failing, session) ==
    IF order = <<>>
    THEN IF session # 0 THEN << <<"release", session>> >> ELSE <<>>
    ELSE << <<"close", Head(order)>> >> \o CloseEvents(Tail(order), failing, session)

\* Collection.Close: Close on every collector of the map, then Close on the
\* session when c.miSession is not nil. The field is left as it is.
\* order: the order in which the map yields the collectors; failing: the
\* collectors whose own Close goes wrong in this call.
Close(order, failing) ==
    /\ pc = "api"
    /\ buildPc # "building"
    /\ closeCalls < MaxCloses
    /\ closeCalls' = closeCalls + 1
    /\ closeLog' = CloseEvents(order, failing, miSession)
    /\ closed' = [n \in Registry |->
                    closed[n] + Cardinality({i \in 1..Len(closeLog') :
                                               closeLog'[i] = <<"close", n>>})]
    /\ released' = [s \in 1..MaxSessions |->
                      released[s] + Cardinality({i \in 1..Len(closeLog') :
                                                   closeLog'[i] = <<"release", s>>})]
    /\ lastOp' = "Close"
    /\ UNCHANGED <<collectors, enableVars, ctxDone, miSession, sessionsOpened,
                   buildPc, buildTodo, built, buildFailed, buildErr, pc, cycleVars, runVars, loopVars, pushVars, classVars, facadeVars>>

\* ----------------------------------------------------------------- Collect
\* The per-collector meta-metrics NewCollection declares with the label
\* "collector": collector_duration_seconds, collector_success,
\* collector_timeout.
MetaKinds == {"duration", "success", "timeout"}

NoMeta == [k \in MetaKinds |-> 0]

\* A slip: every buffer is forwarded, whatever the outcome of its source.
DeliveredAlways(outcome, buf, keep) == buf

\* The samples of a source that are forwarded to the sink, by its outcome:
\* all of them on success, none on a timeout (partial output is discarded);
\* for a failing source the design leaves it open (keep).
Delivered(outcome, buf, keep) ==
    IF outcome = "ok" THEN buf
    ELSE IF outcome = "err" /\ keep THEN buf
    ELSE 0

\* A slip: a failing source is skipped before its meta-metrics are written.
MetaEmittedSkipErr(cnt, outcome) ==
    IF outcome = "err" THEN cnt ELSE [k \in MetaKinds |-> cnt[k] + 1]

\* Recording an outcome emits each per-collector meta-metric once.
MetaEmitted(cnt, outcome) == [k \in MetaKinds |-> cnt[k] + 1]

\* collector_success is 1 only for a source that returned nil in time,
\* collector_timeout is 1 only for one that did not return in time.
MetaValues(outcome) ==
    [success |-> IF outcome = "ok" THEN 1 ELSE 0,
     timeout |-> IF outcome = "timeout" THEN 1 ELSE 0]

\* A slip: the deadline throws away what the cycle has forwarded so far.
SinkDroppedAtDeadline(sink) == [n \in Registry |-> 0]

\* What the other sources have forwarded stays in the sink when the deadline
\* passes.
SinkAtDeadline(sink) == sink

\* Collection.Collect: hands the sink and the deadline to collectAll, which
\* starts every enabled collector's Collect concurrently.
Collect ==
    /\ pc = "api"
    /\ cyclePc # "running"
    /\ cyclePc' = "running"
    /\ srcState' = [n \in Registry |-> IF n \in collectors THEN "running" ELSE "off"]
    /\ srcBuf' = [n \in Registry |-> 0]
    /\ sinkSamples' = [n \in Registry |-> 0]
    /\ sinkMeta' = [n \in Registry |-> NoMeta]
    /\ metaVal' = [n \in Registry |-> MetaValues("off")]
    /\ scrapeDuration' = 0
    /\ UNCHANGED <<collectors, enableVars, lifeVars, pc, runVars, loopVars, pushVars, classVars, facadeVars>>

\* A source writes one sample. A source that missed the deadline may go on
\* running in the background; what it writes then goes nowhere.
SourceEmit(n) ==
    /\ cyclePc \in {"running", "done"}
    /\ \/ cyclePc = "running" /\ srcState[n] = "running"
       \/ srcState[n] = "timeout"
    /\ srcBuf[n] < MaxSamples
    /\ srcBuf' = [srcBuf EXCEPT ![n] = @ + 1]
    /\ UNCHANGED <<collectors, enableVars, lifeVars, pc, runVars, loopVars, cyclePc, srcState,
                   sinkSamples, sinkMeta, metaVal, scrapeDuration, pushVars, classVars, facadeVars>>

\* A source's Collect returns before the deadline, with or without an error.
SourceReturn(n, ok, keep) ==
    /\ cyclePc = "running"
    /\ srcState[n] = "running"
    /\ LET outcome == IF ok THEN "ok" ELSE "err"
       IN  /\ srcState' = [srcState EXCEPT ![n] = outcome]
           /\ sinkSamples' = [sinkSamples EXCEPT ![n] = Delivered(outcome, srcBuf[n], keep)]
           /\ sinkMeta' = [sinkMeta EXCEPT ![n] = MetaEmitted(@, outcome)]
           /\ metaVal' = [metaVal EXCEPT ![n] = MetaValues(outcome)]
    /\ UNCHANGED <<collectors, enableVars, lifeVars, pc, runVars, loopVars, cyclePc, srcBuf,
                   scrapeDuration, pushVars, classVars, facadeVars>>

\* maxScrapeDuration has passed: every source still running is recorded as
\* timed out.
Deadline ==
    /\ cyclePc = "running"
    /\ \E n \in Registry : srcState[n] = "running"
    /\ LET late == {n \in Registry : srcState[n] = "running"}
           sink == SinkAtDeadline(sinkSamples)
       IN  /\ srcState' = [n \in Registry |-> IF n \in late THEN "timeout" ELSE srcState[n]]
           /\ sinkSamples' = [n \in Registry |->
                                IF n \in late
                                THEN Delivered("timeout", srcBuf[n], FALSE)
                                ELSE sink[n]]
           /\ sinkMeta' = [n \in Registry |->
                                IF n \in late
                                THEN MetaEmitted(sinkMeta[n], "timeout")
                                ELSE sinkMeta[n]]
           /\ metaVal' = [n \in Registry |->
                                IF n \in late THEN MetaValues("timeout") ELSE metaVal[n]]
    /\ UNCHANGED <<collectors, enableVars, lifeVars, pc, runVars, loopVars, cyclePc, srcBuf,
                   scrapeDuration, pushVars, classVars, facadeVars>>

\* Every source has an outcome: the whole-cycle duration is emitted and
\* Collect returns.
CollectReturn ==
    /\ cyclePc = "running"
    /\ \A n \in Registry : srcState[n] # "running"
    /\ cyclePc' = "done"
    /\ scrapeDuration' = scrapeDuration + 1
    /\ UNCHANGED <<collectors, enableVars, lifeVars, pc, runVars, loopVars, srcState, srcBuf,
                   sinkSamples, sinkMeta, metaVal, pushVars, classVars, facadeVars>>

\* ------------------------------------------------- expandEnabledCollectors
\* The pieces --collectors.enabled may be made of (the text between commas).
Tokens == Registry \cup {"bogus", "[defaults]", ""}

\* A slip: pagefile is missing from the supported collectors.
supportedCollectorsNoPagefile == <<"cpu", "memory", "net">>

supportedCollectors == <<"cpu", "memory", "net", "pagefile">>

\* strings.ReplaceAll(enabled, "[defaults]", "cpu,memory,net,pagefile")
\* followed by strings.Split(expanded, ","), on the pieces.
RECURSIVE ReplaceDefaults(_)
ReplaceDefaults(toks) ==
    IF toks = <<>> THEN <<>>
    ELSE (IF Head(toks) = "[defaults]" THEN supportedCollectors ELSE <<Head(toks)>>)
         \o ReplaceDefaults(Tail(toks))

\* slices.Compact: runs of equal consecutive elements become one element.
RECURSIVE Compact(_)
Compact(xs) ==
    IF Len(xs) <= 1 THEN xs
    ELSE IF xs[1] = xs[2] THEN Compact(Tail(xs))
    ELSE <<xs[1]>> \o Compact(Tail(xs))

\* A slip: the requested names are passed on unfiltered.
expandEnabledCollectorsUnfiltered(enabled) == Compact(ReplaceDefaults(enabled))

expandEnabledCollectors(enabled) ==
    LET requested == Compact(ReplaceDefaults(enabled))
    IN  SelectSeq(requested, LAMBDA c : c \in Range(supportedCollectors))

\* --------------------------------------------------------------------- run
\* utils.SplitError: the errors joined in err; a plain error is its own
\* single part.
SplitError(err) == <<err>>

RunExit(code) ==
    /\ pc' = "exit"
    /\ exitCode' = code

\* A slip: only the gateway URL is checked.
MandatoryMissingURLOnly(url, agent) == url = ""

\* The mandatory flags: --push.gateway-url and --agent-id must both be given.
MandatoryMissing(url, agent) == url = "" \/ agent = ""

\* config.Parse: --push.gateway-url and --agent-id are Required().
RunParse ==
    /\ pc = "start"
    /\ IF MandatoryMissing(gatewayURL, agentID)
       THEN RunExit(1)
       ELSE pc' = "setup" /\ UNCHANGED exitCode
    /\ UNCHANGED <<collectors, enableVars, lifeVars, cycleVars, gatewayURL, agentID,
                   enabledFlag, enabledList, registered, loopVars, pushVars, classVars, facadeVars>>

\* log.New and setPriorityWindows: either may fail, and run returns 1.
RunSetup(ok) ==
    /\ pc = "setup"
    /\ IF ok
       THEN pc' = "enable" /\ UNCHANGED exitCode
       ELSE RunExit(1)
    /\ UNCHANGED <<collectors, enableVars, lifeVars, cycleVars, gatewayURL, agentID,
                   enabledFlag, enabledList, registered, loopVars, pushVars, classVars, facadeVars>>

\* enabledCollectorList := expandEnabledCollectors(...); collectors.Enable.
RunEnable ==
    /\ pc = "enable"
    /\ LET list == expandEnabledCollectors(enabledFlag)
       IN  /\ enabledList' = list
           /\ Enable(list)
           /\ IF EnableLoop(collectors, list, {}).err # "nil"
              THEN RunExit(1)
              ELSE pc' = "build" /\ UNCHANGED exitCode
    /\ UNCHANGED <<lifeVars, cycleVars, gatewayURL, agentID, enabledFlag,
                   registered, loopVars, pushVars, classVars, facadeVars>>

\* A slip: the error of Build is logged and run carries on.
RunAfterBuildIgnoreErr ==
    /\ pc = "build"
    /\ buildPc = "returned"
    /\ registered' = TRUE
    /\ pc' = "loop"
    /\ UNCHANGED <<collectors, enableVars, lifeVars, cycleVars, exitCode, gatewayURL,
                   agentID, enabledFlag, enabledList, loopVars, pushVars, classVars, facadeVars>>

\* Build has returned. On an error run returns 1 from inside the loop over
\* the parts of the error; otherwise the wrapper is registered and run goes
\* on to runPushGateway.
RunAfterBuild ==
    /\ pc = "build"
    /\ buildPc = "returned"
    /\ IF buildErr # "nil" /\ Len(SplitError(buildErr)) > 0
       THEN RunExit(1) /\ UNCHANGED registered
       ELSE /\ registered' = TRUE
            /\ pc' = "loop"
            /\ UNCHANGED exitCode
    /\ UNCHANGED <<collectors, enableVars, lifeVars, cycleVars, gatewayURL, agentID,
                   enabledFlag, enabledList, loopVars, pushVars, classVars, facadeVars>>

\* ------------------------------------------------------------- pushMetrics
\* The default of --push.job-name.
DefaultJobName == "windows_agent"

\* pushConfig as run builds it from the flags. Credentials and job name are
\* not varied along the run path.
PushConfigOfFlags ==
    [URL |-> gatewayURL, Username |-> "", Password |-> "",
     AgentID |-> agentID, JobName |-> DefaultJobName]

\* A slip: the pushes are grouped under the job name instead of the agent.
GroupingByJob(cfg) == cfg.JobName

\* Grouping("agent_id", config.AgentID): the value of the agent_id grouping
\* key every push of pushMetrics carries.
Grouping(cfg) == cfg.AgentID

\* Job names and agent IDs are kept as their pieces between slashes:
\* "windows_agent" is <<"windows_agent">>, "team/x" is <<"team", "x">> and
\* the empty string is <<"">>.
IsEmptyName(name) == name = <<"">>

HasSlash(name) == Len(name) > 1

\* The path a request goes to, as its segments.
\* push.New(url, job).Grouping("agent_id", id): each of the job name and the
\* grouping value becomes "<label>/<value>" when it is non-empty and free of
\* slashes; otherwise the label gets the suffix @base64 and the value is
\* sent encoded ("=" for the empty string).
EncodeComponent(label, name) ==
    IF IsEmptyName(name) THEN <<label \o "@base64", "=">>
    ELSE IF HasSlash(name) THEN <<label \o "@base64", <<"base64", name>> >>
    ELSE <<label, name[1]>>

FullPath(cfg) ==
    <<"metrics">> \o EncodeComponent("job", cfg.JobName)
                 \o EncodeComponent("agent_id", cfg.AgentID)

\* A slip: credentials are attached as soon as a username is configured.
UseBasicAuthUserOnly(cfg) == cfg.Username # ""

\* if config.Username != "" && config.Password != "" { pusher.BasicAuth(...) }
UseBasicAuth(cfg) == cfg.Username # "" /\ cfg.Password # ""

\* A slip: pusher.Add() instead of pusher.Push().
PushMethodAdd == "POST"

\* pusher.Push() replaces the group's metrics: the request is a PUT.
PushMethod == "PUT"

\* The request one pushMetrics call sends. A pusher made with an empty job
\* name reports that error from Push() and sends nothing.
RequestsOf(cfg) ==
    IF IsEmptyName(cfg.JobName) THEN <<>>
    ELSE << [method |-> PushMethod,
             path |-> FullPath(cfg),
             auth |-> IF UseBasicAuth(cfg)
                      THEN <<cfg.Username, cfg.Password>>
                      ELSE <<>>] >>

\* One pushMetrics call from entry to return; resp is what the gateway does
\* with the request: a 2xx answer, another status, or no connection.
PushMetricsCall(resp) ==
    /\ pc = "api"
    /\ pushCalls < MaxPushCalls
    /\ pushCalls' = pushCalls + 1
    /\ requests' = requests \o RequestsOf(config)
    /\ pushErr' = IF RequestsOf(config) = <<>> THEN "job name is empty"
                  ELSE IF resp = "2xx" THEN "nil"
                  ELSE resp
    /\ UNCHANGED <<collectors, enableVars, lifeVars, cycleVars, pc, runVars,
                   loopVars, config, classVars, facadeVars>>

\* The single label the Collection declares on its own per-collector
\* metrics.
MetaLabels == <<"collector">>

\* ---------------------------------------------------------- runPushGateway
\* pushMetrics is entered: pusher.Push() gathers from the registry (one
\* Collect through the wrapper) and sends the request. The call takes no
\* context and sets no client timeout, so how it ends is up to the gateway:
\* success, an error, or no answer at all.
StartPush(kind) ==
    /\ loopPc' = "pushing"
    /\ pushLog' = Append(pushLog, kind)
    /\ pushGrouping' = Append(pushGrouping, Grouping(PushConfigOfFlags))
    /\ collectCalls' = collectCalls + 1
    /\ \E o \in {"ok", "err", "hang"} : pushOutcome' = o

\* A slip: the loop is entered without the initial push.
RunPushGatewayStartNoPush ==
    /\ pc = "loop"
    /\ loopPc = "notstarted"
    /\ loopPc' = "idle"
    /\ UNCHANGED <<collectors, enableVars, lifeVars, cycleVars, pc, runVars,
                   stopSignalled, loopErr, tickPending, ticksConsumed, pushLog, pushGrouping,
                   pushResults, pushOutcome, collectCalls, pushVars, classVars, ticksFired, ticksDropped, facadeVars>>

\* runPushGateway starts: the ticker is created and the initial push is made
\* at once, whatever the state of ctx.
RunPushGatewayStart ==
    /\ pc = "loop"
    /\ loopPc = "notstarted"
    /\ StartPush("initial")
    /\ UNCHANGED <<collectors, enableVars, lifeVars, cycleVars, pc, runVars,
                   stopSignalled, loopErr, tickPending, ticksConsumed, pushResults, pushVars, classVars, ticksFired, ticksDropped, facadeVars>>

\* A slip: a failed push ends the loop with its error.
PushReturnFailFast ==
    /\ loopPc = "pushing"
    /\ pushOutcome \in {"ok", "err"}
    /\ pushResults' = Append(pushResults, pushOutcome)
    /\ pushOutcome' = "none"
    /\ IF pushOutcome = "err"
       THEN loopPc' = "returned" /\ loopErr' = "push failed"
       ELSE loopPc' = "idle" /\ UNCHANGED loopErr
    /\ UNCHANGED <<collectors, enableVars, lifeVars, cycleVars, pc, runVars,
                   stopSignalled, tickPending, ticksConsumed, pushLog, pushGrouping, collectCalls, pushVars, classVars, ticksFired, ticksDropped, facadeVars>>

\* pushMetrics returns, with nil or an error; an error is only logged and the
\* loop goes (back) to its select.
PushReturn ==
    /\ loopPc = "pushing"
    /\ pushOutcome \in {"ok", "err"}
    /\ pushResults' = Append(pushResults, pushOutcome)
    /\ pushOutcome' = "none"
    /\ loopPc' = "idle"
    /\ UNCHANGED <<collectors, enableVars, lifeVars, cycleVars, pc, runVars,
                   stopSignalled, loopErr, tickPending, ticksConsumed, pushLog, pushGrouping,
                   collectCalls, pushVars, classVars, ticksFired, ticksDropped, facadeVars>>

\* The ticker fires. ticker.C holds one tick; a tick that finds it full is
\* dropped. The ticker runs from the start of runPushGateway to its return.
Tick ==
    /\ loopPc \in {"pushing", "idle"}
    /\ ticksFired' = ticksFired + 1
    /\ IF tickPending
       THEN /\ ticksDropped < MaxDropped
            /\ ticksDropped' = ticksDropped + 1
            /\ UNCHANGED tickPending
       ELSE /\ tickPending' = TRUE
            /\ UNCHANGED ticksDropped
    /\ UNCHANGED <<collectors, enableVars, lifeVars, cycleVars, pc, runVars,
                   stopSignalled, loopPc, loopErr, ticksConsumed, pushLog, pushGrouping,
                   pushResults, pushOutcome, collectCalls, pushVars, classVars, facadeVars>>

\* The service manager asks the process to stop.
StopSignal ==
    /\ pc # "api"
    /\ ~stopSignalled
    /\ stopSignalled' = TRUE
    /\ UNCHANGED <<collectors, enableVars, lifeVars, cycleVars, pc, runVars,
                   loopPc, loopErr, tickPending, ticksConsumed, pushLog, pushGrouping,
                   pushResults, pushOutcome, collectCalls, pushVars, classVars, ticksFired, ticksDropped, facadeVars>>

\* A slip: the tick is served while the previous push is still in flight (the
\* push started on its own goroutine).
SelectTickAsync ==
    /\ loopPc \in {"idle", "pushing"}
    /\ tickPending
    /\ Len(pushLog) < MaxPushes
    /\ tickPending' = FALSE
    /\ ticksConsumed' = ticksConsumed + 1
    /\ StartPush("tick")
    /\ UNCHANGED <<collectors, enableVars, lifeVars, cycleVars, pc, runVars,
                   stopSignalled, loopErr, pushResults, ticksFired, ticksDropped,
                   pushVars, classVars, facadeVars>>

\* A slip: the tick is left in the channel when a push is started for it.
SelectTickKeepsTick ==
    /\ loopPc = "idle"
    /\ tickPending
    /\ Len(pushLog) < MaxPushes
    /\ StartPush("tick")
    /\ UNCHANGED <<collectors, enableVars, lifeVars, cycleVars, pc, runVars,
                   stopSignalled, loopErr, pushResults, tickPending, ticksConsumed,
                   ticksFired, ticksDropped, pushVars, classVars, facadeVars>>

\* select, case <-ticker.C: taken whenever a tick is waiting, also when
\* another case is ready too (select picks among the ready cases).
SelectTick ==
    /\ loopPc = "idle"
    /\ tickPending
    /\ Len(pushLog) < MaxPushes
    /\ tickPending' = FALSE
    /\ ticksConsumed' = ticksConsumed + 1
    /\ StartPush("tick")
    /\ UNCHANGED <<collectors, enableVars, lifeVars, cycleVars, pc, runVars,
                   stopSignalled, loopErr, pushResults, ticksFired, ticksDropped,
                   pushVars, classVars, facadeVars>>

\* select, case <-ctx.Done(): return nil.
SelectDone ==
    /\ loopPc = "idle"
    /\ ctxDone
    /\ loopPc' = "returned"
    /\ loopErr' = "nil"
    /\ UNCHANGED <<collectors, enableVars, lifeVars, cycleVars, pc, runVars,
                   stopSignalled, tickPending, ticksConsumed, pushLog, pushGrouping,
                   pushResults, pushOutcome, collectCalls, pushVars, classVars, ticksFired, ticksDropped, facadeVars>>

\* select, case <-stopCh: return nil.
SelectStop ==
    /\ loopPc = "idle"
    /\ stopSignalled
    /\ loopPc' = "returned"
    /\ loopErr' = "nil"
    /\ UNCHANGED <<collectors, enableVars, lifeVars, cycleVars, pc, runVars,
                   stopSignalled, tickPending, ticksConsumed, pushLog, pushGrouping,
                   pushResults, pushOutcome, collectCalls, pushVars, classVars, ticksFired, ticksDropped, facadeVars>>

\* runPushGateway has returned: run returns 1 on an error, 0 otherwise.
RunReturn ==
    /\ pc = "loop"
    /\ loopPc = "returned"
    /\ RunExit(IF loopErr # "nil" THEN 1 ELSE 0)
    /\ UNCHANGED <<collectors, enableVars, lifeVars, cycleVars, gatewayURL, agentID,
                   enabledFlag, enabledList, registered, loopVars, pushVars, classVars, facadeVars>>

\* ----------------------------------------------------------------- initial
InitEnableVars ==
    /\ enableCalled = FALSE
    /\ enableArg = <<>>
    /\ enablePrev = <<>>
    /\ enableErr = "nil"
    /\ listings = {}
    /\ listCalls = 0

InitLifeVars ==
    /\ ctxDone = FALSE
    /\ miSession = 0
    /\ sessionsOpened = 0
    /\ released = [s \in 1..MaxSessions |-> 0]
    /\ buildPc = "idle"
    /\ buildTodo = {}
    /\ built = {}
    /\ buildFailed = {}
    /\ buildErr = "nil"
    /\ closed = [n \in Registry |-> 0]
    /\ closeCalls = 0
    /\ closeLog = <<>>
    /\ lastOp = "none"

InitCycleVars ==
    /\ cyclePc = "idle"
    /\ srcState = [n \in Registry |-> "off"]
    /\ srcBuf = [n \in Registry |-> 0]
    /\ sinkSamples = [n \in Registry |-> 0]
    /\ sinkMeta = [n \in Registry |-> NoMeta]
    /\ metaVal = [n \in Registry |-> MetaValues("off")]
    /\ scrapeDuration = 0

\* Used while the Collection's methods are called directly: no flags.
InitRunVars ==
    /\ exitCode = 0
    /\ gatewayURL = ""
    /\ agentID = ""
    /\ enabledFlag = <<>>
    /\ enabledList = <<>>
    /\ registered = FALSE

InitLoopVars ==
    /\ stopSignalled = FALSE
    /\ loopPc = "notstarted"
    /\ loopErr = "nil"
    /\ tickPending = FALSE
    /\ ticksConsumed = 0
    /\ ticksFired = 0
    /\ ticksDropped = 0
    /\ pushLog = <<>>
    /\ pushGrouping = <<>>
    /\ pushResults = <<>>
    /\ pushOutcome = "none"
    /\ collectCalls = 0

\* ---- GetInterfaceType (internal/collector/net) ----
\* Strings are sequences of one-character strings, so that lower-casing and
\* substring search work on them as strings.ToLower and strings.Contains do.
UpperLetters ==
    <<"A", "B", "C", "D", "E", "F", "G", "H", "I", "J", "K", "L", "M",
      "N", "O", "P", "Q", "R", "S", "T", "U", "V", "W", "X", "Y", "Z">>

LowerLetters ==
    <<"a", "b", "c", "d", "e", "f", "g", "h", "i", "j", "k", "l", "m",
      "n", "o", "p", "q", "r", "s", "t", "u", "v", "w", "x", "y", "z">>

\* strings.ToLower
ToLower(str) ==
    [i \in 1..Len(str) |->
        IF \E k \in 1..26 : UpperLetters[k] = str[i]
        THEN LowerLetters[CHOOSE k \in 1..26 : UpperLetters[k] = str[i]]
        ELSE str[i]]

\* strings.Contains
Contains(str, substr) ==
    \E i \in 1..(Len(str) + 1) :
        /\ i + Len(substr) - 1 <= Len(str)
        /\ SubSeq(str, i, i + Len(substr) - 1) = substr

\* A slip: the wireless type codes are missing from the map.
interfaceTypeNoWireless ==
    (6 :> "ethernet") @@ (23 :> "cellular") @@ (131 :> "vpn")
        @@ (24 :> "loopback") @@ (144 :> "ethernet")

\* A slip: IF_TYPE_OTHER (1) mapped to a class outside the enumeration.
interfaceTypeWithOther ==
    (6 :> "ethernet") @@ (71 :> "wifi") @@ (23 :> "cellular")
        @@ (131 :> "vpn") @@ (24 :> "loopback") @@ (144 :> "ethernet")
        @@ (237 :> "wifi") @@ (1 :> "other")

\* var interfaceType = map[uint32]string{...}
interfaceType ==
    (6 :> "ethernet") @@ (71 :> "wifi") @@ (23 :> "cellular")
        @@ (131 :> "vpn") @@ (24 :> "loopback") @@ (144 :> "ethernet")
        @@ (237 :> "wifi")

\* vpnPatterns := []string{...}
vpnPatterns ==
    { <<"v", "p", "n">>,
      <<"t", "a", "p">>,
      <<"t", "u", "n">>,
      <<"v", "i", "r", "t", "u", "a", "l">>,
      <<"v", "m", "w", "a", "r", "e">>,
      <<"v", "i", "r", "t", "u", "a", "l", "b", "o", "x">>,
      <<"h", "y", "p", "e", "r", "-", "v">> }

\* wifiPatterns := []string{...}
wifiPatterns ==
    { <<"w", "i", "-", "f", "i">>,
      <<"w", "i", "f", "i">>,
      <<"w", "i", "r", "e", "l", "e", "s", "s">>,
      <<"8", "0", "2", ".", "1", "1">>,
      <<"w", "l", "a", "n">> }

\* ethernetPatterns := []string{...}
ethernetPatterns ==
    { <<"e", "t", "h", "e", "r", "n", "e", "t">>,
      <<"g", "i", "g", "a", "b", "i", "t">>,
      <<"f", "a", "s", "t", " ", "e", "t", "h", "e", "r", "n", "e", "t">>,
      <<"r", "e", "a", "l", "t", "e", "k", " ", "p", "c", "i", "e">> }

\* cellularPatterns := []string{...}
cellularPatterns ==
    { <<"c", "e", "l", "l", "u", "l", "a", "r">>,
      <<"m", "o", "b", "i", "l", "e">>,
      <<"3", "g">>,
      <<"4", "g">>,
      <<"l", "t", "e">>,
      <<"5", "g">>,
      <<"m", "o", "d", "e", "m">> }

PatternsOf(cat) ==
    CASE cat = "vpn" -> vpnPatterns
      [] cat = "wifi" -> wifiPatterns
      [] cat = "ethernet" -> ethernetPatterns
      [] cat = "cellular" -> cellularPatterns

\* A slip: the ethernet patterns are tried before the vpn patterns.
PatternOrderEthernetFirst == <<"ethernet", "vpn", "wifi", "cellular">>

\* The order the pattern lists are tried in.
PatternOrder == <<"vpn", "wifi", "ethernet", "cellular">>

\* Does a pattern of the category occur in the lower-cased name?
MatchesCategory(lower, cat) == \E pat \in PatternsOf(cat) : Contains(lower, pat)

\* GetInterfaceType(ifType, friendlyName): the direct mapping when the map
\* has the type code, otherwise the first category in PatternOrder with a
\* pattern in the lower-cased name, otherwise "unknown".
GetInterfaceType(code, name) ==
    IF code \in DOMAIN interfaceType THEN interfaceType[code]
    ELSE LET lower == ToLower(name)
             hits == SelectSeq(PatternOrder, LAMBDA cat : MatchesCategory(lower, cat))
         IN  IF hits = <<>> THEN "unknown" ELSE Head(hits)

\* One GetInterfaceType call on the record at hand.
Classify ==
    /\ pc = "api"
    /\ ifClass = "pending"
    /\ ifClass' = GetInterfaceType(ifType, friendlyName)
    /\ UNCHANGED <<collectors, enableVars, lifeVars, cycleVars, pc, runVars,
                   loopVars, pushVars, ifType, friendlyName, facadeVars>>

\* The next interface record is taken up.
NextRecord(code, name) ==
    /\ pc = "api"
    /\ ifClass # "pending"
    /\ ifType' = code
    /\ friendlyName' = name
    /\ ifClass' = "pending"
    /\ UNCHANGED <<collectors, enableVars, lifeVars, cycleVars, pc, runVars,
                   loopVars, pushVars, facadeVars>>

\* Adapter names the classifier is tried with.
NameEthernet ==
    <<"E", "t", "h", "e", "r", "n", "e", "t">>

NameIntelWiFi ==
    <<"I", "n", "t", "e", "l", "(", "R", ")", " ", "W", "i", "-", "F", "i",
      " ", "6", " ", "A", "X", "2", "0", "0", " ", "1", "6", "0", "M", "H",
      "z">>

NameRealtek ==
    <<"R", "e", "a", "l", "t", "e", "k", " ", "P", "C", "I", "e", " ", "G",
      "b", "E", " ", "F", "a", "m", "i", "l", "y", " ", "C", "o", "n", "t",
      "r", "o", "l", "l", "e", "r">>

NameTAP ==
    <<"T", "A", "P", "-", "W", "i", "n", "d", "o", "w", "s", " ", "A", "d",
      "a", "p", "t", "e", "r", " ", "V", "9">>

NameMobile ==
    <<"M", "o", "b", "i", "l", "e", " ", "B", "r", "o", "a", "d", "b", "a",
      "n", "d", " ", "A", "d", "a", "p", "t", "e", "r">>

NameAtheros ==
    <<"Q", "u", "a", "l", "c", "o", "m", "m", " ", "A", "t", "h", "e", "r",
      "o", "s", " ", "Q", "C", "A", "9", "3", "7", "7", " ", "W", "i", "r",
      "e", "l", "e", "s", "s", " ", "N", "e", "t", "w", "o", "r", "k", " ",
      "A", "d", "a", "p", "t", "e", "r">>

NameIntelEthernet ==
    <<"I", "n", "t", "e", "l", "(", "R", ")", " ", "E", "t", "h", "e", "r",
      "n", "e", "t", " ", "C", "o", "n", "n", "e", "c", "t", "i", "o", "n",
      " ", "I", "2", "1", "7", "-", "L", "M">>

NameVMware ==
    <<"V", "M", "w", "a", "r", "e", " ", "V", "i", "r", "t", "u", "a", "l",
      " ", "E", "t", "h", "e", "r", "n", "e", "t", " ", "A", "d", "a", "p",
      "t", "e", "r">>

NameUnknown ==
    <<"U", "n", "k", "n", "o", "w", "n", " ", "A", "d", "a", "p", "t", "e",
      "r">>

NameEmpty ==
    <<>>

NameWifiModem ==
    <<"W", "I", "F", "I", " ", "L", "T", "E", " ", "M", "o", "d", "e", "m">>

NameGigabit4G ==
    <<"G", "i", "g", "a", "b", "i", "t", " ", "4", "G", " ", "R", "o", "u",
      "t", "e", "r">>

NameLoopback ==
    <<"L", "o", "o", "p", "b", "a", "c", "k", " ", "P", "s", "e", "u", "d",
      "o", "-", "I", "n", "t", "e", "r", "f", "a", "c", "e", " ", "1">>

AdapterNames ==
    { NameEthernet,
      NameIntelWiFi,
      NameRealtek,
      NameTAP,
      NameMobile,
      NameAtheros,
      NameIntelEthernet,
      NameVMware,
      NameUnknown,
      NameEmpty,
      NameWifiModem,
      NameGigabit4G,
      NameLoopback }

\* 0 and 999 are codes the OS does not use; 1 is IF_TYPE_OTHER.
TypeCodes == {0, 1, 6, 23, 24, 71, 131, 144, 237, 999}

\* Outside the classifier's own specification no record is classified.
InitClassVars ==
    /\ ifType = 0
    /\ friendlyName = <<>>
    /\ ifClass = "pending"

\* ---- AgentCollectorWrapper.Collect (cmd/agent) ----
\* The samples of a cycle are numbered 1, 2, ... in the order written.
\* The most samples a cycle produces: enough to overfill the buffer.
MaxCycleSamples == OriginalChCap + 2

\* A slip: originalCh is made with room for one sample only.
CanWriteCapOne(buf) == Len(buf) < 1

\* A send on originalCh goes through while the buffer has room.
CanWrite(buf) == Len(buf) < OriginalChCap

\* Collect is entered: originalCh is made and the goroutine started, which
\* calls Collection.Collect with the 30 s deadline.
FacadeCollect(n) ==
    /\ pc = "api"
    /\ facadePc = "idle"
    /\ facadePc' = "relaying"
    /\ orchPc' = "collecting"
    /\ toWrite' = n
    /\ UNCHANGED <<collectors, enableVars, lifeVars, cycleVars, pc, runVars,
                   loopVars, pushVars, classVars, orchWritten, originalCh, metric,
                   sinkOut, sinkReceiving>>

\* Collection.Collect writes the next sample to its sink, originalCh.
OrchWrite ==
    /\ orchPc = "collecting"
    /\ orchWritten < toWrite
    /\ CanWrite(originalCh)
    /\ orchWritten' = orchWritten + 1
    /\ originalCh' = Append(originalCh, orchWritten + 1)
    /\ UNCHANGED <<collectors, enableVars, lifeVars, cycleVars, pc, runVars,
                   loopVars, pushVars, classVars, facadePc, orchPc, toWrite, metric,
                   sinkOut, sinkReceiving>>

\* Collection.Collect returns: every source has returned, or the deadline
\* has passed and the sources still running are given up (what they were
\* still to write is not written any more).
OrchReturn ==
    /\ orchPc = "collecting"
    /\ orchPc' = "returned"
    /\ UNCHANGED <<collectors, enableVars, lifeVars, cycleVars, pc, runVars,
                   loopVars, pushVars, classVars, facadePc, toWrite, orchWritten,
                   originalCh, metric, sinkOut, sinkReceiving>>

\* A slip: the goroutine ends without closing originalCh.
GoroutineEndNoClose ==
    /\ orchPc = "returned"
    /\ orchPc' = "ended"
    /\ UNCHANGED <<collectors, enableVars, lifeVars, cycleVars, pc, runVars,
                   loopVars, pushVars, classVars, facadePc, toWrite, orchWritten,
                   originalCh, metric, sinkOut, sinkReceiving>>

\* defer close(originalCh): runs when Collection.Collect has returned.
GoroutineEnd ==
    /\ orchPc = "returned"
    /\ orchPc' = "closed"
    /\ UNCHANGED <<collectors, enableVars, lifeVars, cycleVars, pc, runVars,
                   loopVars, pushVars, classVars, facadePc, toWrite, orchWritten,
                   originalCh, metric, sinkOut, sinkReceiving>>

\* for metric := range originalCh: the oldest waiting sample is received.
RelayReceive ==
    /\ facadePc = "relaying"
    /\ metric = 0
    /\ originalCh # <<>>
    /\ metric' = Head(originalCh)
    /\ originalCh' = Tail(originalCh)
    /\ UNCHANGED <<collectors, enableVars, lifeVars, cycleVars, pc, runVars,
                   loopVars, pushVars, classVars, facadePc, orchPc, toWrite,
                   orchWritten, sinkOut, sinkReceiving>>

\* ch <- metric: goes through when the consumer of ch receives.
RelaySend ==
    /\ facadePc = "relaying"
    /\ metric # 0
    /\ sinkReceiving
    /\ sinkOut' = Append(sinkOut, metric)
    /\ metric' = 0
    /\ UNCHANGED <<collectors, enableVars, lifeVars, cycleVars, pc, runVars,
                   loopVars, pushVars, classVars, facadePc, orchPc, toWrite,
                   orchWritten, originalCh, sinkReceiving>>

\* A slip: the loop is left as soon as Collection.Collect has returned.
FacadeReturnOnOrchReturn ==
    /\ facadePc = "relaying"
    /\ metric = 0
    /\ orchPc \in {"returned", "closed"}
    /\ facadePc' = "returned"
    /\ UNCHANGED <<collectors, enableVars, lifeVars, cycleVars, pc, runVars,
                   loopVars, pushVars, classVars, orchPc, toWrite, orchWritten,
                   originalCh, metric, sinkOut, sinkReceiving>>

\* The range loop ends when originalCh is closed and empty; Collect returns.
FacadeReturn ==
    /\ facadePc = "relaying"
    /\ metric = 0
    /\ orchPc = "closed"
    /\ originalCh = <<>>
    /\ facadePc' = "returned"
    /\ UNCHANGED <<collectors, enableVars, lifeVars, cycleVars, pc, runVars,
                   loopVars, pushVars, classVars, orchPc, toWrite, orchWritten,
                   originalCh, metric, sinkOut, sinkReceiving>>

\* The consumer of ch stops receiving for a while, or resumes.
SinkStall ==
    /\ facadePc = "relaying"
    /\ sinkReceiving
    /\ sinkReceiving' = FALSE
    /\ UNCHANGED <<collectors, enableVars, lifeVars, cycleVars, pc, runVars,
                   loopVars, pushVars, classVars, facadePc, orchPc, toWrite,
                   orchWritten, originalCh, metric, sinkOut>>

SinkResume ==
    /\ facadePc = "relaying"
    /\ ~sinkReceiving
    /\ sinkReceiving' = TRUE
    /\ UNCHANGED <<collectors, enableVars, lifeVars, cycleVars, pc, runVars,
                   loopVars, pushVars, classVars, facadePc, orchPc, toWrite,
                   orchWritten, originalCh, metric, sinkOut>>

\* Outside the wrapper's own specification its Collect is not running.
InitFacadeVars ==
    /\ facadePc = "idle"
    /\ orchPc = "off"
    /\ toWrite = 0
    /\ orchWritten = 0
    /\ originalCh = <<>>
    /\ metric = 0
    /\ sinkOut = <<>>
    /\ sinkReceiving = TRUE

\* The configurations pushMetrics is tried with.
JobNames == {<<"windows_agent">>, <<"">>, <<"team", "x">>}

AgentIDs == {<<"a1">>, <<"">>, <<"site", "7">>}

Configs ==
    [URL : {"http://h:9091"}, Username : {"", "u"}, Password : {"", "p"},
     AgentID : AgentIDs, JobName : JobNames]

\* Along the run path and the Collection's own specifications pushMetrics is
\* not called on its own.
InitPushVars ==
    /\ config = [URL |-> "", Username |-> "", Password |-> "",
                 AgentID |-> <<"">>, JobName |-> <<"">>]
    /\ pushCalls = 0
    /\ requests = <<>>
    /\ pushErr = "nil"

\* ---- Enable on a fresh collection, any sequence of calls ----
InitEnable ==
    /\ collectors = NewWithFlags
    /\ InitEnableVars
    /\ InitLifeVars
    /\ InitCycleVars
    /\ InitRunVars
    /\ InitLoopVars
    /\ InitPushVars
    /\ InitClassVars
    /\ InitFacadeVars
    /\ pc = "api"

NextEnable == EnableCall \/ CollectorsCall

SpecEnable == InitEnable /\ [][NextEnable]_vars

\* ---- Build and Close called directly, in any order, on any enabled set ----
InitLifecycle ==
    /\ collectors \in SUBSET Registry
    /\ InitEnableVars
    /\ InitLifeVars
    /\ InitCycleVars
    /\ InitRunVars
    /\ InitLoopVars
    /\ InitPushVars
    /\ InitClassVars
    /\ InitFacadeVars
    /\ pc = "api"

NextLifecycle ==
    \/ Cancel
    \/ \E miOk \in BOOLEAN : BuildAcquire(miOk)
    \/ \E name \in Registry, ok \in BOOLEAN : BuildNext(name, ok)
    \/ BuildReturn
    \/ Close(Collectors(collectors), {})

SpecLifecycle == InitLifecycle /\ [][NextLifecycle]_vars

\* ---- collection cycles on any enabled set ----
InitCollect ==
    /\ collectors \in SUBSET Registry
    /\ InitEnableVars
    /\ InitLifeVars
    /\ InitCycleVars
    /\ InitRunVars
    /\ InitLoopVars
    /\ InitPushVars
    /\ InitClassVars
    /\ InitFacadeVars
    /\ pc = "api"

NextCollect ==
    \/ Collect
    \/ \E n \in Registry : SourceEmit(n)
    \/ \E n \in Registry, ok \in BOOLEAN, keep \in BOOLEAN : SourceReturn(n, ok, keep)
    \/ Deadline
    \/ CollectReturn

SpecCollect == InitCollect /\ [][NextCollect]_vars

\* ---- Close in every map order, with collectors whose Close fails ----
InitClose ==
    /\ collectors \in {cs \in SUBSET Registry : Cardinality(cs) <= MaxNames}
    /\ InitEnableVars
    /\ InitLifeVars
    /\ InitCycleVars
    /\ InitRunVars
    /\ InitLoopVars
    /\ InitPushVars
    /\ InitClassVars
    /\ InitFacadeVars
    /\ pc = "api"

NextClose ==
    \/ \E miOk \in BOOLEAN : BuildAcquire(miOk)
    \/ \E name \in Registry, ok \in BOOLEAN : BuildNext(name, ok)
    \/ BuildReturn
    \/ \E order \in KeyOrders(collectors),
          failing \in {{}} \cup {{n} : n \in collectors} :
          Close(order, failing)

SpecClose == InitClose /\ [][NextClose]_vars

\* ---- pushMetrics on any configuration ----
InitPush ==
    /\ collectors = NewWithFlags
    /\ InitEnableVars
    /\ InitLifeVars
    /\ InitCycleVars
    /\ InitRunVars
    /\ InitLoopVars
    /\ config \in Configs
    /\ pushCalls = 0
    /\ requests = <<>>
    /\ pushErr = "nil"
    /\ InitClassVars
    /\ InitFacadeVars
    /\ pc = "api"

NextPush == \E resp \in {"2xx", "5xx", "no connection"} : PushMetricsCall(resp)

SpecPush == InitPush /\ [][NextPush]_vars

\* ---- GetInterfaceType on any interface record ----
InitClassify ==
    /\ collectors = NewWithFlags
    /\ InitEnableVars
    /\ InitLifeVars
    /\ InitCycleVars
    /\ InitRunVars
    /\ InitLoopVars
    /\ InitPushVars
    /\ ifType \in TypeCodes
    /\ friendlyName \in AdapterNames
    /\ ifClass = "pending"
    /\ InitFacadeVars
    /\ pc = "api"

NextClassify ==
    \/ Classify
    \/ \E code \in TypeCodes, name \in AdapterNames : NextRecord(code, name)

SpecClassify == InitClassify /\ [][NextClassify]_vars

\* ---- one Collect of the wrapper, the consumer of ch stalling at will ----
InitFacade ==
    /\ collectors = NewWithFlags
    /\ InitEnableVars
    /\ InitLifeVars
    /\ InitCycleVars
    /\ InitRunVars
    /\ InitLoopVars
    /\ InitPushVars
    /\ InitClassVars
    /\ facadePc = "idle"
    /\ orchPc = "off"
    /\ toWrite = 0
    /\ orchWritten = 0
    /\ originalCh = <<>>
    /\ metric = 0
    /\ sinkOut = <<>>
    /\ sinkReceiving \in BOOLEAN
    /\ pc = "api"

\* The steps of the wrapper's Collect and of its goroutine.
FacadeStep ==
    \/ \E n \in 0..MaxCycleSamples : FacadeCollect(n)
    \/ OrchWrite
    \/ OrchReturn
    \/ GoroutineEnd
    \/ RelayReceive
    \/ RelaySend
    \/ FacadeReturn

NextFacade ==
    \/ FacadeStep
    \/ SinkStall
    \/ SinkResume

SpecFacade == InitFacade /\ [][NextFacade]_vars

\* The goroutines are scheduled, the deadline of a cycle passes, and the
\* registry's consumer of ch does not stall for ever.
FairSpecFacade ==
    /\ SpecFacade
    /\ WF_vars(OrchWrite)
    /\ WF_vars(OrchReturn)
    /\ WF_vars(GoroutineEnd)
    /\ WF_vars(RelayReceive)
    /\ SF_vars(RelaySend)
    /\ WF_vars(FacadeReturn)
    /\ WF_vars(SinkResume)

\* ---- the process: run, from the flags to its return ----
Init ==
    /\ collectors = NewWithFlags
    /\ InitEnableVars
    /\ InitLifeVars
    /\ InitCycleVars
    /\ InitLoopVars
    /\ InitPushVars
    /\ InitClassVars
    /\ InitFacadeVars
    /\ pc = "start"
    /\ exitCode = 0
    /\ gatewayURL \in {"", "http://h:9091"}
    /\ agentID \in {"", "a1"}
    /\ enabledFlag \in SeqsUpTo(Tokens, MaxTokens) \ {<<>>}
    /\ enabledList = <<>>
    /\ registered = FALSE

\* The steps the process itself takes (the rest of Next is its environment).
ProgramStep ==
    \/ RunParse
    \/ \E ok \in BOOLEAN : RunSetup(ok)
    \/ RunEnable
    \/ \E miOk \in BOOLEAN : BuildAcquire(miOk)
    \/ \E name \in Registry, ok \in BOOLEAN : BuildNext(name, ok)
    \/ BuildReturn
    \/ RunAfterBuild
    \/ RunPushGatewayStart
    \/ PushReturn
    \/ SelectTick
    \/ SelectDone
    \/ SelectStop
    \/ RunReturn

Next ==
    \/ ProgramStep
    \/ Cancel
    \/ StopSignal
    \/ Tick

Spec == Init /\ [][Next]_vars

\* The scheduler keeps the process running, and a select that is ready to
\* return again and again does return.
FairSpec ==
    /\ Spec
    /\ WF_vars(ProgramStep)
    /\ SF_vars(SelectDone)
    /\ SF_vars(SelectStop)

\* ------------------------------------------------------------------ claims

\* C1: Enable is all-or-nothing. Whenever the list passed to Enable holds a
\* name that is not in the collection, Enable returns "not available" and
\* Collectors() afterwards equals Collectors() before the call.
C1_EnableAllOrNothing ==
    (enableCalled /\ \E i \in 1..Len(enableArg) : enableArg[i] \notin Range(enablePrev))
        => /\ enableErr = "not available"
           /\ Collectors(collectors) = enablePrev

\* C1 witness: a failed Enable whose known name precedes the unknown one.
C1_Witness ==
    /\ enableCalled
    /\ Len(enableArg) = 2
    /\ enableArg[1] \in Range(enablePrev)
    /\ enableArg[2] \notin Range(enablePrev)
    /\ enableErr = "not available"
    /\ Len(enablePrev) > 1

\* C6: every session acquired by Build is released exactly once: no session
\* has more than one release, and once Close has returned every session
\* acquired so far has been released.
C6_SessionReleasedExactlyOnce ==
    /\ \A s \in 1..MaxSessions : released[s] <= 1
    /\ (lastOp = "Close" => \A s \in 1..sessionsOpened : released[s] = 1)

\* C2: when a cycle is over, every sample written by a source that returned
\* in time without error is in the sink, whatever the other sources did.
C2_OkSamplesReachSink ==
    cyclePc = "done" =>
        \A n \in collectors : srcState[n] = "ok" => sinkSamples[n] = srcBuf[n]

\* C2 witness: a finished cycle in which one source delivered its samples
\* while a second one timed out and a third one failed.
C2_Witness ==
    /\ cyclePc = "done"
    /\ \E a, b, c \in collectors :
          /\ srcState[a] = "ok" /\ srcBuf[a] = MaxSamples /\ sinkSamples[a] = MaxSamples
          /\ srcState[b] = "timeout" /\ srcBuf[b] > 0
          /\ srcState[c] = "err"

\* C3: when a cycle is over, each of the three meta-metrics has been emitted
\* exactly once for every enabled source and not at all for the others.
C3_MetaExactlyOnce ==
    cyclePc = "done" =>
        \A n \in Registry : \A k \in {"duration", "success", "timeout"} :
            sinkMeta[n][k] = IF n \in collectors THEN 1 ELSE 0

\* C3 witness: a finished cycle with a successful, a failed and a timed-out
\* source, each with its meta-metrics written.
C3_Witness ==
    /\ cyclePc = "done"
    /\ \E a, b, c \in collectors :
          /\ srcState[a] = "ok" /\ srcState[b] = "err" /\ srcState[c] = "timeout"
          /\ \A n \in {a, b, c} : sinkMeta[n]["success"] = 1

\* C4: a source that did not return within the deadline is reported with
\* collector_timeout = 1 and collector_success = 0, and none of the samples
\* it wrote is in the sink.
C4_TimeoutReportedAndDiscarded ==
    \A n \in collectors :
        srcState[n] = "timeout" =>
            /\ metaVal[n].timeout = 1
            /\ metaVal[n].success = 0
            /\ sinkMeta[n]["timeout"] = 1
            /\ sinkSamples[n] = 0

\* C4 witness: a finished cycle with a timed-out source that had written
\* samples before the deadline.
C4_Witness ==
    /\ cyclePc = "done"
    /\ \E n \in collectors :
          /\ srcState[n] = "timeout"
          /\ srcBuf[n] > 0
          /\ metaVal[n].timeout = 1

\* C5: once the Build of an enabled source has failed, Build has returned an
\* error, run is at its exit (with code 1 when it has returned), nothing was
\* registered, and no Collect call and no push was made.
C5_BuildFailureAborts ==
    buildFailed # {} =>
        /\ buildPc = "returned"
        /\ buildErr # "nil"
        /\ pc \in {"build", "exit"}
        /\ (pc = "exit" => exitCode = 1)
        /\ ~registered
        /\ loopPc = "notstarted"
        /\ collectCalls = 0
        /\ pushLog = <<>>

\* C5 witness: run has returned 1 after one source was built and the next
\* one failed.
C5_Witness ==
    /\ buildFailed # {}
    /\ built # {}
    /\ pc = "exit"
    /\ exitCode = 1

\* The step in which a push returns an error.
PushFailedStep ==
    /\ Len(pushResults') = Len(pushResults) + 1
    /\ pushResults'[Len(pushResults')] = "err"

\* The last push that returned, returned an error.
LastPushFailed == pushResults # <<>> /\ pushResults[Len(pushResults)] = "err"

C8_InitialPushFirst ==
    /\ loopPc # "notstarted" => Len(pushLog) >= 1
    /\ Len(pushLog) >= 1 =>
          /\ pushLog[1] = "initial"
          /\ \A i \in 2..Len(pushLog) : pushLog[i] = "tick"
    /\ ticksConsumed = (IF pushLog = <<>> THEN 0 ELSE Len(pushLog) - 1)

\* C8 witness: a tick was already waiting while the initial push was in
\* flight, and was consumed only afterwards.
C8_Witness ==
    /\ pushLog = <<"initial", "tick">>
    /\ ticksConsumed = 1
    /\ Len(pushResults) >= 1

\* C9: with a shutdown signal raised (ctx cancelled or stopCh signalled), no
\* step starts a push attempt.
C9_NoPushAfterShutdown ==
    [][(ctxDone \/ stopSignalled) => pushLog' = pushLog]_vars

\* C10: whenever a shutdown signal is raised while runPushGateway is running,
\* runPushGateway eventually returns.
C10_LoopReturnsAfterShutdown ==
    ((ctxDone \/ stopSignalled) /\ loopPc \in {"pushing", "idle"}) ~> (loopPc = "returned")

\* C11: at most one push is in flight: the attempts started exceed the
\* attempts returned by at most one, and by one exactly while the loop is
\* inside pushMetrics; each attempt makes one Collect through the registry.
C11_NoOverlappingPushes ==
    /\ Len(pushLog) <= Len(pushResults) + 1
    /\ (loopPc = "pushing") <=> (Len(pushLog) = Len(pushResults) + 1)
    /\ collectCalls = Len(pushLog)

\* C11 witness: a tick arrives while the second push is in flight and waits.
C11_Witness ==
    /\ Len(pushLog) = 2
    /\ Len(pushResults) = 1
    /\ loopPc = "pushing"
    /\ tickPending

\* C12: every push attempt of a run (and so every sample it delivers) is
\* grouped under the configured agent ID, the same in all cycles; the
\* Collection's own metrics carry no agent_id label.
C12_SameAgentIdentity ==
    /\ Len(pushGrouping) = Len(pushLog)
    /\ \A i \in 1..Len(pushGrouping) : pushGrouping[i] = agentID /\ agentID # ""
    /\ "agent_id" \notin Range(MetaLabels)

\* C12 witness: three pushes of one run, all under agent "a1".
C12_Witness ==
    /\ Len(pushGrouping) = 3
    /\ \A i \in 1..3 : pushGrouping[i] = "a1"
    /\ Len(pushResults) = 3

\* C13: in a run without gateway URL or without agent ID, run is still at its
\* start or has returned 1, and no Enable, no Build, no Collect and no push
\* has happened.
C13_MissingMandatoryRejected ==
    (gatewayURL = "" \/ agentID = "") =>
        /\ pc \in {"start", "exit"}
        /\ (pc = "exit" => exitCode = 1)
        /\ ~enableCalled
        /\ buildPc = "idle" /\ sessionsOpened = 0 /\ built = {}
        /\ ~registered
        /\ collectCalls = 0
        /\ pushLog = <<>>

\* C13 witness: a run with a gateway URL but no agent ID has returned 1.
C13_Witness ==
    /\ gatewayURL # ""
    /\ agentID = ""
    /\ pc = "exit"
    /\ exitCode = 1

\* The path the wire contract names, /metrics/job/<job-name>/agent_id/<agent-id>,
\* as its segments.
ContractPath(cfg) == <<"metrics", "job">> \o cfg.JobName \o <<"agent_id">> \o cfg.AgentID

\* Every pushMetrics call so far has issued exactly one request, a PUT to
\* the contract's path.
OnePutPerCall ==
    /\ Len(requests) = pushCalls
    /\ \A i \in 1..Len(requests) :
          /\ requests[i].method = "PUT"
          /\ requests[i].path = ContractPath(config)

C15_BasicAuthIffBoth ==
    \A i \in 1..Len(requests) :
        /\ (requests[i].auth # <<>>) <=> (config.Username # "" /\ config.Password # "")
        /\ requests[i].auth # <<>> => requests[i].auth = <<config.Username, config.Password>>

\* C15 witness: with only a username configured a request went out without
\* credentials.
C15_Witness ==
    /\ config.Username = "u"
    /\ config.Password = ""
    /\ Len(requests) >= 1
    /\ requests[1].auth = <<>>

\* Does some pattern of the list occur in the name, whatever its case?
OccursIn(patterns, name) == \E pat \in patterns : Contains(ToLower(name), pat)

\* C16: for a type code without a direct mapping the class returned is the
\* first of vpn, wifi, ethernet, cellular with a pattern in the name,
\* whatever the case of the name's letters; "VMware Virtual Ethernet
\* Adapter" is vpn.
C16_NameStagePriority ==
    (ifClass # "pending" /\ ifType \notin {6, 71, 23, 131, 24, 144, 237}) =>
        /\ OccursIn(vpnPatterns, friendlyName) => ifClass = "vpn"
        /\ (~OccursIn(vpnPatterns, friendlyName)
              /\ OccursIn(wifiPatterns, friendlyName)) => ifClass = "wifi"
        /\ (~OccursIn(vpnPatterns, friendlyName)
              /\ ~OccursIn(wifiPatterns, friendlyName)
              /\ OccursIn(ethernetPatterns, friendlyName)) => ifClass = "ethernet"
        /\ (~OccursIn(vpnPatterns, friendlyName)
              /\ ~OccursIn(wifiPatterns, friendlyName)
              /\ ~OccursIn(ethernetPatterns, friendlyName)
              /\ OccursIn(cellularPatterns, friendlyName)) => ifClass = "cellular"
        /\ friendlyName = NameVMware => ifClass = "vpn"

\* C16 witness: "VMware Virtual Ethernet Adapter", which holds a vpn and an
\* ethernet pattern, was classified vpn under the unmapped type code 0.
C16_Witness ==
    /\ ifType = 0
    /\ friendlyName = NameVMware
    /\ OccursIn(vpnPatterns, friendlyName)
    /\ OccursIn(ethernetPatterns, friendlyName)
    /\ ifClass = "vpn"

C18_ClassifierTotal ==
    ifClass # "pending" =>
        /\ ifClass \in {"ethernet", "wifi", "cellular", "vpn", "loopback", "unknown"}
        /\ (ifClass = "unknown") <=>
              /\ ifType \notin {6, 71, 23, 131, 24, 144, 237}
              /\ ~OccursIn(vpnPatterns \cup wifiPatterns \cup ethernetPatterns
                              \cup cellularPatterns, friendlyName)

\* C18 witness: the empty name under the unmapped type code 999 was
\* classified unknown.
C18_Witness ==
    /\ ifType = 999
    /\ friendlyName = <<>>
    /\ ifClass = "unknown"

\* C19: after a successful Enable(names) every Collectors() call returns the
\* requested names, each once, in lexicographic order, and all calls made
\* before the next Enable return the same list.
C19_CollectorsSortedStable ==
    (enableCalled /\ enableErr = "nil") =>
        /\ \A l \in listings :
              /\ Range(l) = Range(enableArg)
              /\ \A i, j \in 1..Len(l) : i < j => Rank(l[i]) < Rank(l[j])
        /\ Cardinality(listings) <= 1

\* C19 witness: after Enable("net", "cpu") two Collectors() calls returned
\* cpu, net.
C19_Witness ==
    /\ enableCalled
    /\ enableErr = "nil"
    /\ enableArg = <<"net", "cpu">>
    /\ listCalls = 2
    /\ listings = {<<"cpu", "net">>}

\* The names a --collectors.enabled value requests, in request order, with
\* "[defaults]" standing for cpu, memory, net, pagefile.
RECURSIVE RequestedNames(_)
RequestedNames(toks) ==
    IF toks = <<>> THEN <<>>
    ELSE (IF Head(toks) = "[defaults]" THEN <<"cpu", "memory", "net", "pagefile">>
          ELSE <<Head(toks)>>) \o RequestedNames(Tail(toks))

\* Is xs what is left of ys after removing some of its elements?
RECURSIVE IsSubsequence(_, _)
IsSubsequence(xs, ys) ==
    IF xs = <<>> THEN TRUE
    ELSE IF ys = <<>> THEN FALSE
    ELSE IF Head(xs) = Head(ys) THEN IsSubsequence(Tail(xs), Tail(ys))
    ELSE IsSubsequence(xs, Tail(ys))

C22_FailedBuildReleasesSession ==
    (pc = "exit" /\ buildErr \in {"build", "ctx"}) =>
        /\ miSession # 0
        /\ released[miSession] >= 1

\* C23: when run returns after a successful Build (the loop was ended by a
\* shutdown signal), Close has been executed: every enabled collector is
\* closed and the session released.
C23_CloseBeforeRunReturns ==
    (pc = "exit" /\ registered) =>
        /\ closeCalls >= 1
        /\ \A n \in collectors : closed[n] >= 1
        /\ miSession # 0 /\ released[miSession] >= 1

\* Positions in the log of the last Close call.
CloseLogAt(event) == {i \in 1..Len(closeLog) : closeLog[i] = event}

\* C24: a Close call closes every enabled collector, whichever of them fail
\* to close, and releases the session after the last of them; with no
\* session acquired it releases nothing.
C24_CloseAllThenRelease ==
    lastOp = "Close" =>
        /\ \A n \in collectors : Cardinality(CloseLogAt(<<"close", n>>)) = 1
        /\ \A i \in 1..Len(closeLog) :
              closeLog[i][1] = "release" => i = Len(closeLog) /\ i = Cardinality(collectors) + 1
        /\ sessionsOpened = 0 =>
              /\ \A i \in 1..Len(closeLog) : closeLog[i][1] # "release"
              /\ \A s \in 1..MaxSessions : released[s] = 0

\* C24 witness: a Close call after a Build closed net, then cpu, then
\* released the session.
C24_Witness ==
    /\ lastOp = "Close"
    /\ collectors = {"cpu", "net"}
    /\ closeLog = << <<"close", "net">>, <<"close", "cpu">>, <<"release", 1>> >>

\* C27: an adapter with the generic Ethernet type code 6 whose name holds a
\* vpn pattern is classified vpn, not ethernet.
C27_GenericEthernetVpnName ==
    (ifClass # "pending" /\ ifType = 6 /\ OccursIn(vpnPatterns, friendlyName))
        => ifClass = "vpn"

\* C28: no step enlarges the enabled set, so it stays within the set the
\* collection was created with and a name once left out stays out; an
\* Enable naming a collector that is not enabled fails and changes nothing.
C28_EnableOnlyShrinks ==
    [][/\ collectors' \subseteq collectors
       /\ (enableCalled' /\ \E i \in 1..Len(enableArg') : enableArg'[i] \notin collectors)
             => (enableErr' = "not available" /\ collectors' = collectors)]_vars

\* C28 witness: after an Enable that kept only net, Enable("cpu") failed and
\* the enabled set is still net alone.
C28_Witness ==
    /\ enableCalled
    /\ enableArg = <<"cpu">>
    /\ enableErr = "not available"
    /\ collectors = {"net"}

\* C29: on the run path Enable is called only with names among cpu, memory,
\* net, pagefile, whatever --collectors.enabled holds; it does not fail, and
\* run does not return at the Enable step.
C29_RunEnablesOnlySupported ==
    enableCalled =>
        /\ Range(enableArg) \subseteq {"cpu", "memory", "net", "pagefile"}
        /\ enableErr = "nil"
        /\ collectors = Range(enableArg)
        /\ pc # "enable"
        /\ pc = "exit" => buildPc = "returned"

\* C29 witness: --collectors.enabled=bogus,cpu led to Enable("cpu") and run
\* went on to Build.
C29_Witness ==
    /\ enabledFlag = <<"bogus", "cpu">>
    /\ enableCalled
    /\ enableArg = <<"cpu">>
    /\ enableErr = "nil"
    /\ pc = "build"

\* C30: of the ticks fired, all but the consumed and the dropped ones are
\* waiting, and that is at most one; every push after the initial one has
\* consumed a tick of its own, so pushes never outnumber one plus the ticks
\* consumed, however many ticks fired during a push.
C30_TicksDoNotAccumulate ==
    /\ ticksFired = ticksConsumed + ticksDropped + (IF tickPending THEN 1 ELSE 0)
    /\ Len(pushLog) <= 1 + ticksConsumed
    /\ loopPc # "notstarted" => Len(pushLog) = 1 + ticksConsumed

\* C30 witness: the ticker fired twice before the initial push was over and
\* served; one tick was dropped, one catch-up push was made and has
\* returned, and no tick is waiting.
C30_Witness ==
    /\ ticksFired = 2
    /\ ticksDropped = 1
    /\ pushLog = <<"initial", "tick">>
    /\ Len(pushResults) = 2
    /\ loopPc = "idle"
    /\ ~tickPending

\* The samples 1 .. n in the order written.
UpTo(n) == [i \in 1..n |-> i]

\* C21: the samples received by the consumer, the one in the hands of the
\* loop and those waiting in originalCh are, in this order, the samples
\* Collection.Collect has written: none lost, repeated or out of order; and
\* when the wrapper's Collect has returned, Collection.Collect has returned,
\* originalCh is empty and the consumer has received every sample.
C21_RelayExactlyOnceInOrder ==
    /\ sinkOut \o (IF metric # 0 THEN <<metric>> ELSE <<>>) \o originalCh = UpTo(orchWritten)
    /\ facadePc = "returned" =>
          /\ orchPc = "closed"
          /\ originalCh = <<>>
          /\ sinkOut = UpTo(orchWritten)

\* C21 witness: three samples were written and relayed and Collect returned.
C21_Witness ==
    /\ facadePc = "returned"
    /\ orchWritten = 3
    /\ sinkOut = <<1, 2, 3>>

BlockedByStalledSink ==
    /\ orchPc = "collecting"
    /\ orchWritten < toWrite
    /\ ~CanWrite(originalCh)
    /\ metric # 0
    /\ ~sinkReceiving

\* C26 as stated: a stalled consumer never blocks Collection.Collect,
\* whatever the number of samples of the cycle.
C26_StalledSinkNeverBlocks == ~BlockedByStalledSink

\* C26 as amended: it never does in a cycle of at most as many samples as
\* originalCh has room for plus the one the loop holds.
C26_StalledSinkWithinCapacity ==
    toWrite <= OriginalChCap + 1 => ~BlockedByStalledSink

\* C26 witness: with the consumer stalled and nothing received by it,
\* Collection.Collect has written a buffer-full of samples and one more and
\* has returned.
C26_Witness ==
    /\ ~sinkReceiving
    /\ sinkOut = <<>>
    /\ toWrite = OriginalChCap + 1
    /\ orchWritten = toWrite
    /\ orchPc = "closed"
    /\ facadePc = "relaying"

====
